---------------------------- MODULE Spec2Model ----------------------------
(***************************************************************************)
(* Model of update_imports.py: a straight-line script that reads           *)
(* CLACalendar.tsx, cuts marker-delimited regions out of it, reinserts the *)
(* InputProps fragment, prepends a block of imports to the tail and writes *)
(* the result to CLACalendar.updated.tsx.                                  *)
(*                                                                         *)
(* Text is a sequence of tokens.  Every marker literal the script searches *)
(* for is one token (the literal itself), except the closing token '};'    *)
(* which is the two tokens "}" and ";" so that the search for '}' and the  *)
(* search for '};' interact as they do on characters.  Indices held in     *)
(* variables are Python indices: 0-based, -1 for "not found"; an offset    *)
(* derived from the sentinel (-1, -1 + 2, ...) therefore counts tokens.    *)
(***************************************************************************)
EXTENDS Integers, Sequences, FiniteSets, TLC

VARIABLES
    pc,                      \* position of the script
    file,                    \* text of src/components/CLACalendar.tsx
    inOpen, outOpen,         \* is the input / output file handle open
    outFile,                 \* text of src/components/CLACalendar.updated.tsx
    outWrites,               \* number of f.write calls on the output file
    stdout,                  \* lines printed
    abortAt,                 \* where an unhandled exception ended the run
    content, import_end, import_section, updated_imports,
    measurement_cache_start,
    content_after_imports,
    get_font_size_end,
    card_props_start, card_component_end,
    input_props,
    renderer_start, renderer_end,
    is_same_month_start, is_same_month_end,
    measurement_idx, month_grid_start,
    final_content,
    trail                    \* history: the successive values of content_after_imports

vars == <<pc, file, inOpen, outOpen, outFile, outWrites, stdout, abortAt,
          content, import_end, import_section, updated_imports,
          measurement_cache_start, content_after_imports, get_font_size_end,
          card_props_start, card_component_end, input_props,
          renderer_start, renderer_end, is_same_month_start, is_same_month_end,
          measurement_idx, month_grid_start, final_content, trail>>

-----------------------------------------------------------------------------
(* The literals of the script. *)

FontSizeMarker    == "// Font size utility function"
GetFontSizeMarker == "const getFontSize ="
CardPropsMarker   == "// Add these interfaces after the existing ones"
CardFooterMarker  == "Card.Footer = ("
InputPropsMarker  == "interface InputProps"
RendererStartMarker == "// Add these type definitions"
RendererMarker    == "interface Renderer"
IsSameMonthMarker == "/**\n * A reliable implementation of isSameMonth"
MeasurementComment == "// Add this outside the component to cache measurements"
MeasurementDecl   == "const measurementCache = {"
MonthGridMarker   == "// Update the MonthGrid to use proper types for weeks"
RBrace            == "}"
Semi              == ";"
NL                == "\n"
CloseStmt         == <<RBrace, Semi>>       \* '};'
new_imports       == <<"new_imports">>      \* the block of lines 19-29, one token
StatusLine1 == "Updated file written to src/components/CLACalendar.updated.tsx"
StatusLine2 == "Please review the changes before replacing the original file"

Markers == {FontSizeMarker, GetFontSizeMarker, CardPropsMarker, CardFooterMarker,
            InputPropsMarker, RendererStartMarker, RendererMarker, IsSameMonthMarker,
            MeasurementComment, MeasurementDecl, MonthGridMarker}

-----------------------------------------------------------------------------
(* Python's str operations on token sequences. *)

Min(S) == CHOOSE x \in S : \A y \in S : x <= y
Max2(a, b) == IF a >= b THEN a ELSE b
Min2(a, b) == IF a <= b THEN a ELSE b

\* slice index normalisation: negative counts from the end, then clamp to 0..len
Norm(i, n) == IF i < 0 THEN Max2(i + n, 0) ELSE Min2(i, n)

\* variant of s[:i]: a negative index is clamped to 0 instead of counting from the end
SliceToClamped(s, i) == SubSeq(s, 1, IF i < 0 THEN 0 ELSE Min2(i, Len(s)))

\* s[:i]
SliceTo(s, i) == SubSeq(s, 1, Norm(i, Len(s)))

\* s[i:]
SliceFrom(s, i) == SubSeq(s, Norm(i, Len(s)) + 1, Len(s))

\* s.find(sub, start): lowest index >= start where sub occurs, else -1
Find(s, sub, start) ==
    LET n  == Len(s)
        m  == Len(sub)
        st == Norm(start, n)
        C  == {i \in st..(n - m) : \A k \in 1..m : s[i + k] = sub[k]}
    IN  IF C = {} THEN -1 ELSE Min(C)

\* re.search(r'(interface InputProps[^}]+})', s): the leftmost occurrence of
\* the marker that is followed by at least one non-'}' token and then a '}';
\* the match runs through the first '}' after the marker.  <<>> stands for
\* "no match" (a match is never empty).
SearchInputProps(s) ==
    LET n == Len(s)
        Close(p) == Find(s, <<RBrace>>, p + 1)
        C == {p \in 0..(n - 1) : /\ s[p + 1] = InputPropsMarker
                                 /\ Close(p) >= p + 2}
    IN  IF C = {} THEN <<>> ELSE SubSeq(s, Min(C) + 1, Close(Min(C)) + 1)

-----------------------------------------------------------------------------
(* The input texts explored. *)

MaxLen  == 2     \* longest unstructured input, in tokens
MaxDrop == 2     \* most template items left out of a structured input

Other    == "x"
Alphabet == Markers \cup {RBrace, Semi, NL, Other}

RECURSIVE SeqsUpTo(_)
SeqsUpTo(n) ==
    IF n = 0 THEN {<<>>}
    ELSE LET S == SeqsUpTo(n - 1)
         IN  S \cup {Append(s, t) : s \in {u \in S : Len(u) = n - 1}, t \in Alphabet}

RawInputs == SeqsUpTo(MaxLen)

\* The markers in the order the script expects them in CLACalendar.tsx.
Items == << <<FontSizeMarker>>, <<GetFontSizeMarker>>, CloseStmt,
            <<CardPropsMarker>>, <<CardFooterMarker>>, CloseStmt,
            <<RendererStartMarker>>, <<RendererMarker>>, <<RBrace>>,
            <<IsSameMonthMarker>>, CloseStmt,
            <<MonthGridMarker>>, <<MeasurementComment>>, <<MeasurementDecl>> >>
NumItems == Len(Items)

\* Gap g (0..NumItems) is the text in front of item g+1 (after the last item
\* for g = NumItems); each gap holds its own letter.
GapText == <<"a", "b", "c", "d", "e", "f", "g", "h", "i", "j", "k", "l", "m", "n", "o">>
Gaps    == 0..NumItems

\* An InputProps declaration, closed or cut short of its '}'.
Fragment(closed) ==
    <<InputPropsMarker, "p">> \o (IF closed THEN <<RBrace>> ELSE <<>>)

\* A structured input: the template without the items in drops, with an
\* InputProps declaration at the end of gap ip.gap (ip.gap = -1: none) and
\* one extra token ex.tok at the end of gap ex.gap (ex.gap = -1: none).
RECURSIVE Gen(_, _, _, _)
Gen(g, drops, ip, ex) ==
    IF g > NumItems THEN <<>>
    ELSE <<GapText[g + 1]>>
         \o (IF ip.gap = g THEN Fragment(ip.closed) ELSE <<>>)
         \o (IF ex.gap = g THEN <<ex.tok>> ELSE <<>>)
         \o (IF g < NumItems /\ (g + 1) \notin drops THEN Items[g + 1] ELSE <<>>)
         \o Gen(g + 1, drops, ip, ex)

NoIp == [gap |-> -1, closed |-> TRUE]
NoEx == [gap |-> -1, tok |-> Other]
IpChoices   == {NoIp} \cup [gap : Gaps, closed : BOOLEAN]
ExChoices   == [gap : Gaps, tok : Alphabet]
DropChoices == {d \in SUBSET (1..NumItems) : Cardinality(d) <= MaxDrop}

StructuredInputs ==
    {Gen(0, d, ip, NoEx) : d \in DropChoices, ip \in IpChoices}
    \cup {Gen(0, {}, ip, ex) : ip \in IpChoices, ex \in ExChoices}

Inputs == RawInputs \cup StructuredInputs

\* the inputs that differ from the template only by missing items
MarkerInputs == RawInputs \cup {Gen(0, d, NoIp, NoEx) : d \in DropChoices}

-----------------------------------------------------------------------------
(* The script, one action per statement group. *)

InitOn(texts) ==
    /\ pc = "open_in"
    /\ file \in texts
    /\ inOpen = FALSE /\ outOpen = FALSE
    /\ outFile = <<"previous output">>
    /\ outWrites = 0
    /\ stdout = <<>>
    /\ abortAt = "none"
    /\ content = <<>> /\ import_end = 0 /\ import_section = <<>>
    /\ updated_imports = <<>> /\ measurement_cache_start = 0
    /\ content_after_imports = <<>> /\ get_font_size_end = 0
    /\ card_props_start = 0 /\ card_component_end = 0
    /\ input_props = <<>> /\ renderer_start = 0 /\ renderer_end = 0
    /\ is_same_month_start = 0 /\ is_same_month_end = 0
    /\ measurement_idx = 0 /\ month_grid_start = 0
    /\ final_content = <<>> /\ trail = <<>>

Init == InitOn(Inputs)

dataVars == <<content, import_end, import_section, updated_imports,
              measurement_cache_start, content_after_imports, get_font_size_end,
              card_props_start, card_component_end, input_props,
              renderer_start, renderer_end, is_same_month_start, is_same_month_end,
              measurement_idx, month_grid_start, final_content, trail>>

\* line 9: open(..., 'r') succeeds
OpenInput ==
    /\ pc = "open_in"
    /\ inOpen' = TRUE
    /\ pc' = "read"
    /\ UNCHANGED <<file, outOpen, outFile, outWrites, stdout, abortAt>>
    /\ UNCHANGED dataVars

\* variant of line 9: the failed open is swallowed and the script goes on with no content
OpenInputFailsSwallowed ==
    /\ pc = "open_in"
    /\ abortAt' = "open_in"
    /\ pc' = "split"
    /\ UNCHANGED <<file, inOpen, outOpen, outFile, outWrites, stdout, content,
                   import_end, import_section, updated_imports,
                   measurement_cache_start, content_after_imports,
                   get_font_size_end, card_props_start, card_component_end,
                   input_props, renderer_start, renderer_end,
                   is_same_month_start, is_same_month_end, measurement_idx,
                   month_grid_start, final_content, trail>>

\* line 9: open(..., 'r') raises (no such file): the exception is unhandled
OpenInputFails ==
    /\ pc = "open_in"
    /\ pc' = "aborted"
    /\ abortAt' = "open_in"
    /\ UNCHANGED <<file, inOpen, outOpen, outFile, outWrites, stdout>>
    /\ UNCHANGED dataVars

\* line 10: content = f.read()
ReadInput ==
    /\ pc = "read"
    /\ inOpen
    /\ content' = file
    /\ pc' = "close_in"
    /\ UNCHANGED <<file, inOpen, outOpen, outFile, outWrites, stdout, abortAt,
                   import_end, import_section, updated_imports,
                   measurement_cache_start, content_after_imports,
                   get_font_size_end, card_props_start, card_component_end,
                   input_props, renderer_start, renderer_end,
                   is_same_month_start, is_same_month_end, measurement_idx,
                   month_grid_start, final_content, trail>>

\* variant of line 10: the file is opened without a with block and never closed
CloseInputLeaked ==
    /\ pc = "close_in"
    /\ pc' = "split"
    /\ UNCHANGED <<file, inOpen, outOpen, outFile, outWrites, stdout, abortAt,
                   content, import_end, import_section, updated_imports,
                   measurement_cache_start, content_after_imports,
                   get_font_size_end, card_props_start, card_component_end,
                   input_props, renderer_start, renderer_end,
                   is_same_month_start, is_same_month_end, measurement_idx,
                   month_grid_start, final_content, trail>>

\* line 10, leaving the with block: f is closed
CloseInput ==
    /\ pc = "close_in"
    /\ inOpen' = FALSE
    /\ pc' = "split"
    /\ UNCHANGED <<file, outOpen, outFile, outWrites, stdout, abortAt, content,
                   import_end, import_section, updated_imports,
                   measurement_cache_start, content_after_imports,
                   get_font_size_end, card_props_start, card_component_end,
                   input_props, renderer_start, renderer_end,
                   is_same_month_start, is_same_month_end, measurement_idx,
                   month_grid_start, final_content, trail>>

\* variant of lines 13-16: content.index(marker), which raises ValueError when the marker is absent
SplitImportsIndex ==
    /\ pc = "split"
    /\ IF Find(content, <<FontSizeMarker>>, 0) = -1
       THEN /\ abortAt' = "split"
            /\ pc' = "aborted"
            /\ UNCHANGED <<import_end, import_section>>
       ELSE /\ import_end' = Find(content, <<FontSizeMarker>>, 0)
            /\ import_section' = SliceTo(content, import_end')
            /\ abortAt' = abortAt
            /\ pc' = "imports"
    /\ UNCHANGED <<file, inOpen, outOpen, outFile, outWrites, stdout, content,
                   updated_imports, measurement_cache_start,
                   content_after_imports, get_font_size_end, card_props_start,
                   card_component_end, input_props, renderer_start, renderer_end,
                   is_same_month_start, is_same_month_end, measurement_idx,
                   month_grid_start, final_content, trail>>

\* lines 13-16: import_end = content.find(marker); import_section = content[:import_end]
SplitImports ==
    /\ pc = "split"
    /\ import_end' = Find(content, <<FontSizeMarker>>, 0)
    /\ import_section' = SliceTo(content, import_end')
    /\ pc' = "imports"
    /\ UNCHANGED <<file, inOpen, outOpen, outFile, outWrites, stdout, abortAt,
                   content, updated_imports, measurement_cache_start,
                   content_after_imports, get_font_size_end, card_props_start,
                   card_component_end, input_props, renderer_start, renderer_end,
                   is_same_month_start, is_same_month_end, measurement_idx,
                   month_grid_start, final_content, trail>>

\* variant of line 32: the import block in front of the import section
UpdateImportsPrepended ==
    /\ pc = "imports"
    /\ updated_imports' = new_imports \o import_section
    /\ pc' = "cache"
    /\ UNCHANGED <<file, inOpen, outOpen, outFile, outWrites, stdout, abortAt,
                   content, import_end, import_section, measurement_cache_start,
                   content_after_imports, get_font_size_end, card_props_start,
                   card_component_end, input_props, renderer_start, renderer_end,
                   is_same_month_start, is_same_month_end, measurement_idx,
                   month_grid_start, final_content, trail>>

\* line 32: updated_imports = import_section + new_imports
UpdateImports ==
    /\ pc = "imports"
    /\ updated_imports' = import_section \o new_imports
    /\ pc' = "cache"
    /\ UNCHANGED <<file, inOpen, outOpen, outFile, outWrites, stdout, abortAt,
                   content, import_end, import_section, measurement_cache_start,
                   content_after_imports, get_font_size_end, card_props_start,
                   card_component_end, input_props, renderer_start, renderer_end,
                   is_same_month_start, is_same_month_end, measurement_idx,
                   month_grid_start, final_content, trail>>

\* lines 36-38: the measurementCache anchor in the whole text (never used again)
FindMeasurementCacheStart ==
    /\ pc = "cache"
    /\ measurement_cache_start' =
           LET i == Find(content, <<MeasurementComment>>, 0)
           IN  IF i = -1 THEN Find(content, <<MeasurementDecl>>, 0) ELSE i
    /\ pc' = "after"
    /\ UNCHANGED <<file, inOpen, outOpen, outFile, outWrites, stdout, abortAt,
                   content, import_end, import_section, updated_imports,
                   content_after_imports, get_font_size_end, card_props_start,
                   card_component_end, input_props, renderer_start, renderer_end,
                   is_same_month_start, is_same_month_end, measurement_idx,
                   month_grid_start, final_content, trail>>

\* line 41: content_after_imports = content[import_end:]
TakeAfterImports ==
    /\ pc = "after"
    /\ content_after_imports' = SliceFrom(content, import_end)
    /\ trail' = Append(trail, content_after_imports')
    /\ pc' = "getfontsize"
    /\ UNCHANGED <<file, inOpen, outOpen, outFile, outWrites, stdout, abortAt,
                   content, import_end, import_section, updated_imports,
                   measurement_cache_start, get_font_size_end, card_props_start,
                   card_component_end, input_props, renderer_start, renderer_end,
                   is_same_month_start, is_same_month_end, measurement_idx,
                   month_grid_start, final_content>>

\* lines 42-43: drop everything through the '};' that follows 'const getFontSize ='
RemoveGetFontSize ==
    /\ pc = "getfontsize"
    /\ get_font_size_end' =
           Find(content_after_imports, CloseStmt,
                Find(content_after_imports, <<GetFontSizeMarker>>, 0)) + 2
    /\ content_after_imports' = SliceFrom(content_after_imports, get_font_size_end')
    /\ trail' = Append(trail, content_after_imports')
    /\ pc' = "card"
    /\ UNCHANGED <<file, inOpen, outOpen, outFile, outWrites, stdout, abortAt,
                   content, import_end, import_section, updated_imports,
                   measurement_cache_start, card_props_start, card_component_end,
                   input_props, renderer_start, renderer_end,
                   is_same_month_start, is_same_month_end, measurement_idx,
                   month_grid_start, final_content>>

\* lines 47-50: cut the Card interfaces and implementation
RemoveCard ==
    /\ pc = "card"
    /\ card_props_start' = Find(content_after_imports, <<CardPropsMarker>>, 0)
    /\ card_component_end' =
           Find(content_after_imports, CloseStmt,
                Find(content_after_imports, <<CardFooterMarker>>, 0)) + 2
    /\ content_after_imports' =
           SliceTo(content_after_imports, card_props_start')
           \o SliceFrom(content_after_imports, card_component_end')
    /\ trail' = Append(trail, content_after_imports')
    /\ pc' = "inputprops"
    /\ UNCHANGED <<file, inOpen, outOpen, outFile, outWrites, stdout, abortAt,
                   content, import_end, import_section, updated_imports,
                   measurement_cache_start, get_font_size_end, input_props,
                   renderer_start, renderer_end, is_same_month_start,
                   is_same_month_end, measurement_idx, month_grid_start,
                   final_content>>

\* lines 53-54: input_props = the regex match, or '' without one
MatchInputProps ==
    /\ pc = "inputprops"
    /\ input_props' = SearchInputProps(content_after_imports)
    /\ pc' = "renderer"
    /\ UNCHANGED <<file, inOpen, outOpen, outFile, outWrites, stdout, abortAt,
                   content, import_end, import_section, updated_imports,
                   measurement_cache_start, content_after_imports,
                   get_font_size_end, card_props_start, card_component_end,
                   renderer_start, renderer_end, is_same_month_start,
                   is_same_month_end, measurement_idx, month_grid_start,
                   final_content, trail>>

\* variant of lines 57-61: renderer_end without the + 1, the closing '}' stays
RemoveRendererKeepsBrace ==
    /\ pc = "renderer"
    /\ renderer_start' = Find(content_after_imports, <<RendererStartMarker>>, 0)
    /\ renderer_end' =
           Find(content_after_imports, <<RBrace>>,
                Find(content_after_imports, <<RendererMarker>>, 0))
    /\ content_after_imports' =
           SliceTo(content_after_imports, renderer_start')
           \o input_props \o <<NL, NL>>
           \o SliceFrom(content_after_imports, renderer_end')
    /\ trail' = Append(trail, content_after_imports')
    /\ pc' = "samemonth"
    /\ UNCHANGED <<file, inOpen, outOpen, outFile, outWrites, stdout, abortAt,
                   content, import_end, import_section, updated_imports,
                   measurement_cache_start, get_font_size_end, card_props_start,
                   card_component_end, input_props, is_same_month_start,
                   is_same_month_end, measurement_idx, month_grid_start,
                   final_content>>

\* lines 57-61: replace the Renderer block by input_props + two newlines
RemoveRenderer ==
    /\ pc = "renderer"
    /\ renderer_start' = Find(content_after_imports, <<RendererStartMarker>>, 0)
    /\ renderer_end' =
           Find(content_after_imports, <<RBrace>>,
                Find(content_after_imports, <<RendererMarker>>, 0)) + 1
    /\ content_after_imports' =
           SliceTo(content_after_imports, renderer_start')
           \o input_props \o <<NL, NL>>
           \o SliceFrom(content_after_imports, renderer_end')
    /\ trail' = Append(trail, content_after_imports')
    /\ pc' = "samemonth"
    /\ UNCHANGED <<file, inOpen, outOpen, outFile, outWrites, stdout, abortAt,
                   content, import_end, import_section, updated_imports,
                   measurement_cache_start, get_font_size_end, card_props_start,
                   card_component_end, input_props, is_same_month_start,
                   is_same_month_end, measurement_idx, month_grid_start,
                   final_content>>

\* lines 64-67: cut the isSameMonth function
RemoveIsSameMonth ==
    /\ pc = "samemonth"
    /\ is_same_month_start' = Find(content_after_imports, <<IsSameMonthMarker>>, 0)
    /\ is_same_month_end' =
           Find(content_after_imports, CloseStmt, is_same_month_start') + 2
    /\ content_after_imports' =
           SliceTo(content_after_imports, is_same_month_start')
           \o SliceFrom(content_after_imports, is_same_month_end')
    /\ trail' = Append(trail, content_after_imports')
    /\ pc' = "anchor"
    /\ UNCHANGED <<file, inOpen, outOpen, outFile, outWrites, stdout, abortAt,
                   content, import_end, import_section, updated_imports,
                   measurement_cache_start, get_font_size_end, card_props_start,
                   card_component_end, input_props, renderer_start, renderer_end,
                   measurement_idx, month_grid_start, final_content>>

\* lines 71-73: the anchor, tried as two alternative literals
FindMeasurementIdx ==
    /\ pc = "anchor"
    /\ measurement_idx' =
           LET i == Find(content_after_imports, <<MeasurementComment>>, 0)
           IN  IF i = -1 THEN Find(content_after_imports, <<MeasurementDecl>>, 0) ELSE i
    /\ pc' = "monthgrid"
    /\ UNCHANGED <<file, inOpen, outOpen, outFile, outWrites, stdout, abortAt,
                   content, import_end, import_section, updated_imports,
                   measurement_cache_start, content_after_imports,
                   get_font_size_end, card_props_start, card_component_end,
                   input_props, renderer_start, renderer_end,
                   is_same_month_start, is_same_month_end, month_grid_start,
                   final_content, trail>>

\* variant of lines 76-80: 'or' in place of 'and', one marker found is enough
RemoveMonthGridEither ==
    /\ pc = "monthgrid"
    /\ month_grid_start' = Find(content_after_imports, <<MonthGridMarker>>, 0)
    /\ content_after_imports' =
           IF month_grid_start' # -1 \/ measurement_idx # -1
           THEN SliceTo(content_after_imports, month_grid_start')
                \o <<NL>>
                \o SliceFrom(content_after_imports, measurement_idx)
           ELSE content_after_imports
    /\ trail' = Append(trail, content_after_imports')
    /\ pc' = "combine"
    /\ UNCHANGED <<file, inOpen, outOpen, outFile, outWrites, stdout, abortAt,
                   content, import_end, import_section, updated_imports,
                   measurement_cache_start, get_font_size_end, card_props_start,
                   card_component_end, input_props, renderer_start, renderer_end,
                   is_same_month_start, is_same_month_end, measurement_idx,
                   final_content>>

\* lines 76-80: cut from the MonthGrid marker to the anchor if both were found
RemoveMonthGrid ==
    /\ pc = "monthgrid"
    /\ month_grid_start' = Find(content_after_imports, <<MonthGridMarker>>, 0)
    /\ content_after_imports' =
           IF month_grid_start' # -1 /\ measurement_idx # -1
           THEN SliceTo(content_after_imports, month_grid_start')
                \o <<NL>>
                \o SliceFrom(content_after_imports, measurement_idx)
           ELSE content_after_imports
    /\ trail' = Append(trail, content_after_imports')
    /\ pc' = "combine"
    /\ UNCHANGED <<file, inOpen, outOpen, outFile, outWrites, stdout, abortAt,
                   content, import_end, import_section, updated_imports,
                   measurement_cache_start, get_font_size_end, card_props_start,
                   card_component_end, input_props, renderer_start, renderer_end,
                   is_same_month_start, is_same_month_end, measurement_idx,
                   final_content>>

\* line 86: final_content = updated_imports + content_after_imports
Combine ==
    /\ pc = "combine"
    /\ final_content' = updated_imports \o content_after_imports
    /\ pc' = "open_out"
    /\ UNCHANGED <<file, inOpen, outOpen, outFile, outWrites, stdout, abortAt,
                   content, import_end, import_section, updated_imports,
                   measurement_cache_start, content_after_imports,
                   get_font_size_end, card_props_start, card_component_end,
                   input_props, renderer_start, renderer_end,
                   is_same_month_start, is_same_month_end, measurement_idx,
                   month_grid_start, trail>>

\* line 89: open(..., 'w') succeeds and truncates the file
OpenOutput ==
    /\ pc = "open_out"
    /\ outOpen' = TRUE
    /\ outFile' = <<>>
    /\ pc' = "write"
    /\ UNCHANGED <<file, inOpen, outWrites, stdout, abortAt, content, import_end,
                   import_section, updated_imports, measurement_cache_start,
                   content_after_imports, get_font_size_end, card_props_start,
                   card_component_end, input_props, renderer_start, renderer_end,
                   is_same_month_start, is_same_month_end, measurement_idx,
                   month_grid_start, final_content, trail>>

\* line 89: open(..., 'w') raises (directory missing or not writable)
OpenOutputFails ==
    /\ pc = "open_out"
    /\ abortAt' = "open_out"
    /\ pc' = "aborted"
    /\ UNCHANGED <<file, inOpen, outOpen, outFile, outWrites, stdout, content,
                   import_end, import_section, updated_imports,
                   measurement_cache_start, content_after_imports,
                   get_font_size_end, card_props_start, card_component_end,
                   input_props, renderer_start, renderer_end,
                   is_same_month_start, is_same_month_end, measurement_idx,
                   month_grid_start, final_content, trail>>

\* line 90: f.write(final_content)
WriteOutput ==
    /\ pc = "write"
    /\ outOpen
    /\ outFile' = outFile \o final_content
    /\ outWrites' = outWrites + 1
    /\ pc' = "close_out"
    /\ UNCHANGED <<file, inOpen, outOpen, stdout, abortAt, content, import_end,
                   import_section, updated_imports, measurement_cache_start,
                   content_after_imports, get_font_size_end, card_props_start,
                   card_component_end, input_props, renderer_start, renderer_end,
                   is_same_month_start, is_same_month_end, measurement_idx,
                   month_grid_start, final_content, trail>>

\* line 90, leaving the with block: f is closed
CloseOutput ==
    /\ pc = "close_out"
    /\ outOpen' = FALSE
    /\ pc' = "print1"
    /\ UNCHANGED <<file, inOpen, outFile, outWrites, stdout, abortAt, content,
                   import_end, import_section, updated_imports,
                   measurement_cache_start, content_after_imports,
                   get_font_size_end, card_props_start, card_component_end,
                   input_props, renderer_start, renderer_end,
                   is_same_month_start, is_same_month_end, measurement_idx,
                   month_grid_start, final_content, trail>>

\* line 92
PrintWritten ==
    /\ pc = "print1"
    /\ stdout' = Append(stdout, StatusLine1)
    /\ pc' = "print2"
    /\ UNCHANGED <<file, inOpen, outOpen, outFile, outWrites, abortAt, content,
                   import_end, import_section, updated_imports,
                   measurement_cache_start, content_after_imports,
                   get_font_size_end, card_props_start, card_component_end,
                   input_props, renderer_start, renderer_end,
                   is_same_month_start, is_same_month_end, measurement_idx,
                   month_grid_start, final_content, trail>>

\* line 93
PrintReview ==
    /\ pc = "print2"
    /\ stdout' = Append(stdout, StatusLine2)
    /\ pc' = "done"
    /\ UNCHANGED <<file, inOpen, outOpen, outFile, outWrites, abortAt, content,
                   import_end, import_section, updated_imports,
                   measurement_cache_start, content_after_imports,
                   get_font_size_end, card_props_start, card_component_end,
                   input_props, renderer_start, renderer_end,
                   is_same_month_start, is_same_month_end, measurement_idx,
                   month_grid_start, final_content, trail>>

Next ==
    \/ OpenInput \/ OpenInputFails \/ ReadInput \/ CloseInput
    \/ SplitImports \/ UpdateImports \/ FindMeasurementCacheStart
    \/ TakeAfterImports \/ RemoveGetFontSize \/ RemoveCard
    \/ MatchInputProps \/ RemoveRenderer \/ RemoveIsSameMonth
    \/ FindMeasurementIdx \/ RemoveMonthGrid \/ Combine
    \/ OpenOutput \/ OpenOutputFails \/ WriteOutput \/ CloseOutput
    \/ PrintWritten \/ PrintReview

Spec == Init /\ [][Next]_vars

\* the same script run on the inputs with missing markers only
MarkerInit == InitOn(MarkerInputs)
MarkerSpec == MarkerInit /\ [][Next]_vars

-----------------------------------------------------------------------------
(* Vocabulary of the properties, stated on positions (1-based) without the *)
(* script's own search and slice operations.                               *)

Occ(s, t)       == {i \in 1..Len(s) : s[i] = t}
Has(s, t)       == Occ(s, t) # {}
First(s, t)     == Min(Occ(s, t))
OccFrom(s, t, i) == {k \in Occ(s, t) : k >= i}
\* positions where '};' starts, at or after i
CloseFrom(s, i) == {k \in OccFrom(s, RBrace, i) : k < Len(s) /\ s[k + 1] = Semi}
Before(s, i)    == SubSeq(s, 1, i - 1)      \* the text in front of position i
FromPos(s, i)   == SubSeq(s, i, Len(s))     \* the text from position i on
After(s, i)     == SubSeq(s, i + 1, Len(s)) \* the text behind position i

\* an 'interface InputProps ... }' text: the marker, at least one token that
\* is not '}', then '}'
IsDecl(s, p, q) ==
    /\ s[p] = InputPropsMarker /\ s[q] = RBrace /\ q >= p + 2
    /\ \A k \in (p + 1)..(q - 1) : s[k] # RBrace
HasDecl(s) == \E p \in 1..Len(s) : \E q \in p..Len(s) : IsDecl(s, p, q)

\* positions of the script, by what has run
AfterSplit    == {"imports", "cache", "after"}
Slicing       == {"split", "imports", "cache", "after", "getfontsize", "card",
                  "inputprops", "renderer", "samemonth", "anchor", "monthgrid",
                  "combine"}
Written       == {"close_out", "print1", "print2", "done"}
StepSevenDone == {"combine", "open_out", "write"} \cup Written

PreviousOutput == <<"previous output">>

-----------------------------------------------------------------------------
(* C10: step 1 is a partition of the input.  Once line 41 has run, the     *)
(* 'before' region content[:import_end] followed by the initial 'after'    *)
(* region content[import_end:] is the content itself, also when the split  *)
(* marker is absent and import_end is -1.                                  *)
SplitIsPartition ==
    pc = "getfontsize" =>
        /\ import_section \o content_after_imports = content
        /\ content_after_imports = trail[1]
        /\ (~Has(content, FontSizeMarker) => import_end = -1)

\* C10 witness: the marker is absent and the text is long enough for a wrong wrap to show
SplitIsPartitionWitness ==
    /\ pc = "getfontsize" /\ import_end = -1 /\ Len(content) >= 2
    /\ Len(import_section) = Len(content) - 1

(* C1: import block placement.  When the input contains the split marker,  *)
(* the written output is the original text in front of the first           *)
(* occurrence of the marker, then the new import block, then the final     *)
(* 'after' region.                                                         *)
ImportBlockPlacement ==
    (pc \in Written /\ Has(file, FontSizeMarker)) =>
        outFile = Before(file, First(file, FontSizeMarker))
                  \o new_imports \o content_after_imports

ImportBlockPlacementWitness ==
    /\ pc = "done" /\ Has(file, FontSizeMarker)
    /\ First(file, FontSizeMarker) > 1
    /\ content_after_imports # <<>>
    /\ Has(content_after_imports, MeasurementComment)

(* C7: step 7 acts only if both markers are found.  If the MonthGrid start *)
(* marker is absent from the buffer, or both anchor literals are, step 7   *)
(* leaves the buffer as it was, and the 'after' region of the output is    *)
(* the buffer as it stood after the isSameMonth removal.                   *)
StepSevenNeedsBoth ==
    (/\ pc \in StepSevenDone
     /\ \/ ~Has(trail[5], MonthGridMarker)
        \/ (~Has(trail[5], MeasurementComment) /\ ~Has(trail[5], MeasurementDecl)))
    => /\ content_after_imports = trail[5]
       /\ trail[6] = trail[5]
       /\ (pc \in Written => outFile = updated_imports \o trail[5])

\* C7 witness: the start marker is there and no anchor is
StepSevenNoAnchorWitness ==
    /\ pc = "done" /\ Has(trail[5], MonthGridMarker)
    /\ ~Has(trail[5], MeasurementComment) /\ ~Has(trail[5], MeasurementDecl)
    /\ Len(trail[5]) >= 3

Anchor(s) ==
    IF Has(s, MeasurementComment) THEN First(s, MeasurementComment)
    ELSE First(s, MeasurementDecl)

(* C9: step 7 only removes text.  Whenever the MonthGrid start marker and  *)
(* an anchor are both found, the buffer after step 7 is the text in front  *)
(* of the start marker, one newline, then the text from the anchor on, and *)
(* it is the earlier buffer with one contiguous span deleted: it grows by  *)
(* at most the one newline, whatever the relative position of the markers. *)
StepSevenOnlyRemoves ==
    (/\ pc = "combine"
     /\ Has(trail[5], MonthGridMarker)
     /\ (Has(trail[5], MeasurementComment) \/ Has(trail[5], MeasurementDecl)))
    => /\ content_after_imports =
              Before(trail[5], First(trail[5], MonthGridMarker))
              \o <<NL>> \o FromPos(trail[5], Anchor(trail[5]))
       /\ Len(content_after_imports) <= Len(trail[5]) + 1

RendererFound(s) ==
    /\ Has(s, RendererStartMarker) /\ Has(s, RendererMarker)
    /\ OccFrom(s, RBrace, First(s, RendererMarker)) # {}
RendererClose(s) == Min(OccFrom(s, RBrace, First(s, RendererMarker)))

(* C6: no InputProps declaration.  As claimed: the Renderer block is       *)
(* replaced by nothing, the text in front of the start marker is directly  *)
(* followed by the text behind the block's closing '}'.                    *)
NoFragmentNothingInserted ==
    (pc = "samemonth" /\ ~HasDecl(trail[3]) /\ RendererFound(trail[3])) =>
        content_after_imports =
            Before(trail[3], First(trail[3], RendererStartMarker))
            \o After(trail[3], RendererClose(trail[3]))

(* C6, amended: without a declaration the block is replaced by exactly two *)
(* newlines: the buffer is buffer[:renderer_start], two newlines,          *)
(* buffer[renderer_end:], which with the markers found is the text in      *)
(* front of the start marker, two newlines, the text behind the '}'.       *)
NoFragmentTwoNewlines ==
    (pc = "samemonth" /\ ~HasDecl(trail[3])) =>
        /\ input_props = <<>>
        /\ content_after_imports =
               SliceTo(trail[3], renderer_start) \o <<NL, NL>>
               \o SliceFrom(trail[3], renderer_end)
        /\ RendererFound(trail[3]) =>
               content_after_imports =
                   Before(trail[3], First(trail[3], RendererStartMarker))
                   \o <<NL, NL>>
                   \o After(trail[3], RendererClose(trail[3]))

NoFragmentWitness ==
    /\ pc = "samemonth" /\ ~HasDecl(trail[3]) /\ RendererFound(trail[3])
    /\ First(trail[3], RendererStartMarker) > 1
    /\ RendererClose(trail[3]) < Len(trail[3])

-----------------------------------------------------------------------------
(* Well-formed input: every marker occurs once, in the order the script    *)
(* expects, each block with its closing token.                             *)

Once(s, t) == Cardinality(Occ(s, t)) = 1
AtMostOnce(s, t) == Cardinality(Occ(s, t)) <= 1

PosFontSize(s)   == First(s, FontSizeMarker)
PosGetFont(s)    == First(s, GetFontSizeMarker)
PosCardProps(s)  == First(s, CardPropsMarker)
PosCardFooter(s) == First(s, CardFooterMarker)
PosRendStart(s)  == First(s, RendererStartMarker)
PosRenderer(s)   == First(s, RendererMarker)
PosSameMonth(s)  == First(s, IsSameMonthMarker)
PosMonthGrid(s)  == First(s, MonthGridMarker)
EndGetFont(s)    == Min(CloseFrom(s, PosGetFont(s)))      \* the '}' of its '};'
EndCard(s)       == Min(CloseFrom(s, PosCardFooter(s)))
EndRenderer(s)   == Min(OccFrom(s, RBrace, PosRenderer(s)))
EndSameMonth(s)  == Min(CloseFrom(s, PosSameMonth(s)))

WellFormed(s) ==
    /\ \A t \in {FontSizeMarker, GetFontSizeMarker, CardPropsMarker,
                 CardFooterMarker, RendererStartMarker, RendererMarker,
                 IsSameMonthMarker, MonthGridMarker} : Once(s, t)
    /\ AtMostOnce(s, MeasurementComment) /\ AtMostOnce(s, MeasurementDecl)
    /\ (Has(s, MeasurementComment) \/ Has(s, MeasurementDecl))
    /\ PosFontSize(s) < PosGetFont(s)
    /\ CloseFrom(s, PosGetFont(s)) # {}
    /\ EndGetFont(s) < PosCardProps(s)
    /\ PosCardProps(s) < PosCardFooter(s)
    /\ CloseFrom(s, PosCardFooter(s)) # {}
    /\ EndCard(s) < PosRendStart(s)
    /\ PosRendStart(s) < PosRenderer(s)
    /\ OccFrom(s, RBrace, PosRenderer(s)) # {}
    /\ EndRenderer(s) < PosSameMonth(s)
    /\ CloseFrom(s, PosSameMonth(s)) # {}
    /\ EndSameMonth(s) < PosMonthGrid(s)
    /\ PosMonthGrid(s) < Anchor(s)

\* the input with the removed spans deleted, the import block, the fragment
\* with its two newlines and the newline of step 7 put where the script
\* inserts them
Retained(s, fragment) ==
    Before(s, PosFontSize(s))
    \o new_imports
    \o SubSeq(s, EndGetFont(s) + 2, PosCardProps(s) - 1)
    \o SubSeq(s, EndCard(s) + 2, PosRendStart(s) - 1)
    \o fragment \o <<NL, NL>>
    \o SubSeq(s, EndRenderer(s) + 1, PosSameMonth(s) - 1)
    \o SubSeq(s, EndSameMonth(s) + 2, PosMonthGrid(s) - 1)
    \o <<NL>>
    \o FromPos(s, Anchor(s))

(* C2: no data loss outside the removed spans.  For a well-formed input    *)
(* the output without the inserted texts is the input without the removed  *)
(* spans: every token outside them is there once, in the original order.   *)
NoDataLoss ==
    (pc \in Written /\ WellFormed(file)) => outFile = Retained(file, input_props)

DeclStart(s) == Min({p \in 1..Len(s) : \E q \in p..Len(s) : IsDecl(s, p, q)})
DeclEnd(s)   == Min({q \in DeclStart(s)..Len(s) : IsDecl(s, DeclStart(s), q)})
Decl(s)      == SubSeq(s, DeclStart(s), DeclEnd(s))
IsPrefix(u, s) == Len(u) <= Len(s) /\ SubSeq(s, 1, Len(u)) = u

(* C3: fragment retention.  When an InputProps declaration is in the       *)
(* buffer as the Renderer block is removed, the output holds that text     *)
(* verbatim where the block was: right behind the text that stood in front *)
(* of the Renderer start marker.                                           *)
FragmentRetained ==
    (pc \in Written /\ HasDecl(trail[3]) /\ RendererFound(trail[3])) =>
        IsPrefix(updated_imports
                 \o Before(trail[3], PosRendStart(trail[3]))
                 \o Decl(trail[3]),
                 outFile)

(* C4: a missing marker is never an error.  The run stops only at one of   *)
(* the two open calls; every other position has a next step; a finished    *)
(* run wrote the output once and printed both lines; and an absent marker  *)
(* puts -1, or a value derived from it, into the slice: without the split  *)
(* marker the 'before' region is content[:-1], without 'const getFontSize' *)
(* the cut is at index 1.                                                  *)
MissingMarkerNoError ==
    /\ pc = "aborted" => abortAt \in {"open_in", "open_out"}
    /\ pc \notin {"aborted", "done"} => ENABLED Next
    /\ pc = "done" => outWrites = 1 /\ stdout = <<StatusLine1, StatusLine2>>
    /\ (pc \in (Slicing \ {"split"}) /\ ~Has(content, FontSizeMarker)) =>
           /\ import_end = -1
           /\ import_section = Before(content, Len(content))
    /\ (pc \in (StepSevenDone \cup {"card"}) /\ ~Has(trail[1], GetFontSizeMarker)) =>
           /\ get_font_size_end = 1
           /\ trail[2] = After(trail[1], 1)

MissingMarkerWitness ==
    /\ pc = "done" /\ Len(file) >= 2
    /\ ~Has(file, FontSizeMarker) /\ ~Has(file, GetFontSizeMarker)
    /\ outWrites = 1

IoOrdering ==
    /\ ~(inOpen /\ outOpen)
    /\ inOpen => pc \in {"read", "close_in"}
    /\ pc \in Slicing => ~inOpen /\ ~outOpen /\ content = file
    /\ outOpen => /\ pc \in {"write", "close_out"}
                  /\ final_content = updated_imports \o content_after_imports
    /\ stdout # <<>> => ~outOpen /\ outWrites = 1 /\ outFile = final_content
    /\ outWrites > 0 => /\ pc \in Written
                        /\ pc = "done" <=> stdout = <<StatusLine1, StatusLine2>>
                        /\ pc = "print2" <=> stdout = <<StatusLine1>>

IoOrderingWitness ==
    /\ pc = "done" /\ stdout = <<StatusLine1, StatusLine2>>
    /\ Len(outFile) > 3 /\ ~inOpen /\ ~outOpen

=============================================================================
